---- MODULE Spec2Model ----
(***************************************************************************)
(* Model of the codecs of algorithms.py: run-length encoding, Huffman      *)
(* coding, Golomb coding, LZW coding and the grayscale quantizer.          *)
(*                                                                         *)
(* Every codec function is a pure function and is written as an operator   *)
(* that follows the statements of the Python function it models.  A text   *)
(* is a sequence of characters, a character is a one-character string,     *)
(* except for LZW, whose texts are sequences of code points so that        *)
(* chr(i) -> i of the seed dictionary can be written down.  A call that    *)
(* raises a Python exception returns a record whose field error names      *)
(* the exception; a call that returns has error = NoError.                 *)
(*                                                                         *)
(* The state machine draws one input for one codec, applies the encoder    *)
(* and then applies the decoder to what the encoder returned.  A run can   *)
(* also start from an encoded artifact supplied by the caller (Huffman     *)
(* bit string and code table), to which only the decoder is applied.       *)
(***************************************************************************)
EXTENDS Integers, Sequences, FiniteSets, TLC

VARIABLES technique, origin, pc, text, n, m, levels, image,
          compressed, codes, decompressed, error

vars == <<technique, origin, pc, text, n, m, levels, image,
          compressed, codes, decompressed, error>>

-----------------------------------------------------------------------------
(* Bounds of the model. *)

\* longest text given to the Huffman and LZW codecs
MaxLen == 5
\* longest text of the full RLE alphabet
MaxRleLen == 3
\* longest single run given to the RLE codec (counts of two digits from 10)
MaxRun == 11
\* largest integer given to the Golomb encoder
MaxN == 40
\* largest Golomb parameter
MaxM == 17
\* the Golomb encoder is also called with n and m down to -MaxNeg
MaxNeg == 3
\* longest caller-supplied Huffman bit string
MaxBits == 3
\* longest code of a caller-supplied Huffman code table
MaxCodeLen == 2

\* number of 8-bit sample values; also the size of the LZW seed dictionary
ByteRange == 256

-----------------------------------------------------------------------------
(* Python values and builtins used by the codecs. *)

NoError == "none"
None == "None"

Min(a, b) == IF a <= b THEN a ELSE b

\* s[:k] for k >= 0
Prefix(s, k) == SubSeq(s, 1, Min(k, Len(s)))

\* s[1:]
Rest(s) == SubSeq(s, 2, Len(s))

\* c * k for a character c (the empty string for k <= 0)
Repeat(c, k) == [i \in 1..k |-> c]

\* all sequences over S of length lo..hi
SeqsOf(S, lo, hi) == UNION {[1..k -> S] : k \in lo..hi}

\* the characters 0..9, in order
DecimalDigitChars == <<"0", "1", "2", "3", "4", "5", "6", "7", "8", "9">>

\* U+00B2 SUPERSCRIPT TWO: str.isdigit() is true of it, int() rejects it
Sup2 == "sup2"

IsDecimalChar(c) == \E d \in 1..Len(DecimalDigitChars) : DecimalDigitChars[d] = c

DecimalValue(c) == (CHOOSE d \in 1..Len(DecimalDigitChars) : DecimalDigitChars[d] = c) - 1

\* str.isdigit() of one character
isdigit(c) == IsDecimalChar(c) \/ c = Sup2

\* f"{count}" for count >= 0
RECURSIVE FormatDecimal(_)
FormatDecimal(k) ==
    IF k < 10 THEN <<DecimalDigitChars[k + 1]>>
    ELSE FormatDecimal(k \div 10) \o <<DecimalDigitChars[(k % 10) + 1]>>

RECURSIVE DecimalOf(_)
DecimalOf(s) ==
    IF s = <<>> THEN 0
    ELSE 10 * DecimalOf(SubSeq(s, 1, Len(s) - 1)) + DecimalValue(s[Len(s)])

\* int(count): ValueError on the empty string and on a character that is no
\* decimal digit
ParseInt(s) ==
    IF s = <<>> \/ \E i \in 1..Len(s) : ~IsDecimalChar(s[i])
    THEN [error |-> "ValueError", value |-> 0]
    ELSE [error |-> NoError, value |-> DecimalOf(s)]

-----------------------------------------------------------------------------
(* RUN-LENGTH ENCODING *)

\* the inner while of rle_compress: the last index of the run that holds i
RECURSIVE RunEnd(_, _)
RunEnd(t, i) ==
    IF i + 1 <= Len(t) /\ t[i] = t[i + 1] THEN RunEnd(t, i + 1) ELSE i

\* the outer while of rle_compress, from index i (1-based)
RECURSIVE rle_compress_from(_, _)
rle_compress_from(t, i) ==
    IF i > Len(t) THEN <<>>
    ELSE LET j == RunEnd(t, i)
             count == j - i + 1
         IN  <<t[j]>> \o FormatDecimal(count) \o rle_compress_from(t, j + 1)

rle_compress(t) == rle_compress_from(t, 1)

\* the inner while of rle_decompress: the first index from i that holds no digit
RECURSIVE DigitsEnd(_, _)
DigitsEnd(c, i) ==
    IF i <= Len(c) /\ isdigit(c[i]) THEN DigitsEnd(c, i + 1) ELSE i

\* the outer while of rle_decompress, from index i (1-based)
RECURSIVE rle_decompress_from(_, _)
rle_decompress_from(c, i) ==
    IF i > Len(c) THEN [error |-> NoError, value |-> <<>>]
    ELSE LET char == c[i]
             j == DigitsEnd(c, i + 1)
             count == ParseInt(SubSeq(c, i + 1, j - 1))
         IN  IF count.error # NoError THEN [error |-> count.error, value |-> <<>>]
             ELSE LET rest == rle_decompress_from(c, j)
                  IN  IF rest.error # NoError THEN rest
                      ELSE [error |-> NoError,
                            value |-> Repeat(char, count.value) \o rest.value]

rle_decompress(c) == rle_decompress_from(c, 1)

-----------------------------------------------------------------------------
(* HUFFMAN CODING *)

\* Node(char, freq): left and right are None until huffman_compress sets them
Node(char, freq) == [char |-> char, freq |-> freq, left |-> None, right |-> None]

\* the keys of Counter(text), in the order of their first occurrence
RECURSIVE CounterKeys(_)
CounterKeys(t) ==
    IF t = <<>> THEN <<>>
    ELSE LET front == CounterKeys(SubSeq(t, 1, Len(t) - 1))
             last == t[Len(t)]
         IN  IF \E i \in 1..Len(front) : front[i] = last THEN front
             ELSE Append(front, last)

\* Counter(text)[char]
Count(t, char) == Cardinality({i \in 1..Len(t) : t[i] = char})

\* one insertion of the stable sort: x goes behind every node whose freq is
\* not larger
RECURSIVE InsertByFreq(_, _)
InsertByFreq(sorted, x) ==
    IF sorted = <<>> THEN <<x>>
    ELSE LET last == sorted[Len(sorted)]
         IN  IF last.freq <= x.freq THEN Append(sorted, x)
             ELSE Append(InsertByFreq(SubSeq(sorted, 1, Len(sorted) - 1), x), last)

\* heap.sort(key=lambda x: x.freq): list.sort is stable
RECURSIVE SortByFreq(_)
SortByFreq(heap) ==
    IF heap = <<>> THEN <<>>
    ELSE InsertByFreq(SortByFreq(SubSeq(heap, 1, Len(heap) - 1)), heap[Len(heap)])

\* the while loop of huffman_compress: sort, pop the two first nodes, append
\* the merged node
RECURSIVE MergeLoop(_)
MergeLoop(heap) ==
    IF Len(heap) > 1
    THEN LET sorted == SortByFreq(heap)
             left == sorted[1]
             right == sorted[2]
             merged == [char |-> None, freq |-> left.freq + right.freq,
                        left |-> left, right |-> right]
         IN  MergeLoop(Append(SubSeq(sorted, 3, Len(sorted)), merged))
    ELSE heap

\* generate_codes with the right edge labelled like the left edge
RECURSIVE generate_codes_one_bit(_, _)
generate_codes_one_bit(node, current_code) ==
    IF node.char # None THEN (node.char :> current_code)
    ELSE generate_codes_one_bit(node.left, Append(current_code, "0"))
         @@ generate_codes_one_bit(node.right, Append(current_code, "0"))

\* generate_codes(node, current_code): the entries it adds to codes.  A leaf has
\* a char and no children; a merged node has children and no char.
RECURSIVE generate_codes(_, _)
generate_codes(node, current_code) ==
    IF node.char # None THEN (node.char :> current_code)
    ELSE generate_codes(node.left, Append(current_code, "0"))
         @@ generate_codes(node.right, Append(current_code, "1"))

\* ''.join(codes[ch] for ch in text)
RECURSIVE EncodeText(_, _)
EncodeText(t, table) ==
    IF t = <<>> THEN <<>>
    ELSE EncodeText(SubSeq(t, 1, Len(t) - 1), table) \o table[t[Len(t)]]

huffman_compress(t) ==
    LET keys == CounterKeys(t)
        heap == MergeLoop([i \in 1..Len(keys) |-> Node(keys[i], Count(t, keys[i]))])
    IN  IF heap = <<>>
        THEN \* root = heap[0] on an empty list
             [error |-> "IndexError", encoded_text |-> <<>>, codes |-> <<>>]
        ELSE LET table == generate_codes(heap[1], <<>>)
             IN  [error |-> NoError, encoded_text |-> EncodeText(t, table),
                  codes |-> table]

\* reverse_codes = {v: k for k, v in codes.items()}, for a table whose codes
\* are pairwise distinct
ReverseCodes(table) ==
    [v \in {table[k] : k \in DOMAIN table} |-> CHOOSE k \in DOMAIN table : table[k] = v]

\* the for loop of huffman_decompress from bit i, with the local variables
\* decoded_text and temp; returns both as they are when the bits run out
RECURSIVE DecodeLoop(_, _, _, _, _)
DecodeLoop(encoded_text, reverse_codes, i, decoded_text, temp) ==
    IF i > Len(encoded_text) THEN [decoded_text |-> decoded_text, temp |-> temp]
    ELSE LET temp2 == Append(temp, encoded_text[i])
         IN  IF temp2 \in DOMAIN reverse_codes
             THEN DecodeLoop(encoded_text, reverse_codes, i + 1,
                             Append(decoded_text, reverse_codes[temp2]), <<>>)
             ELSE DecodeLoop(encoded_text, reverse_codes, i + 1, decoded_text, temp2)

\* huffman_decompress has no raise: it returns decoded_text whatever temp holds
huffman_decompress(encoded_text, table) ==
    [error |-> NoError,
     value |-> DecodeLoop(encoded_text, ReverseCodes(table), 1, <<>>, <<>>).decoded_text]

-----------------------------------------------------------------------------
(* GOLOMB CODING *)

\* a & b for a, b >= 0
RECURSIVE BitAnd(_, _)
BitAnd(a, b) ==
    IF a = 0 \/ b = 0 THEN 0
    ELSE (a % 2) * (b % 2) + 2 * BitAnd(a \div 2, b \div 2)

\* (m & (m - 1)) == 0 for m >= 1
IsPowerOfTwo(k) == BitAnd(k, k - 1) = 0

RECURSIVE Pow2(_)
Pow2(e) == IF e = 0 THEN 1 ELSE 2 * Pow2(e - 1)

\* int(math.log2(m)) for m >= 1
RECURSIVE Log2Floor(_)
Log2Floor(k) == IF k <= 1 THEN 0 ELSE 1 + Log2Floor(k \div 2)

\* math.ceil(math.log2(m)) for m >= 1
Log2Ceil(k) == IF Pow2(Log2Floor(k)) = k THEN Log2Floor(k) ELSE Log2Floor(k) + 1

\* format(v, 'b') for v >= 0: the binary digits of v, one digit for 0
RECURSIVE BinaryDigits(_)
BinaryDigits(v) ==
    IF v < 2 THEN <<DecimalDigitChars[v + 1]>>
    ELSE Append(BinaryDigits(v \div 2), DecimalDigitChars[(v % 2) + 1])

\* format(v, f'0{width}b'): zero-padded on the left up to width, never cut
FormatBinary(v, width) ==
    LET digits == BinaryDigits(v)
    IN  Repeat("0", width - Len(digits)) \o digits

RECURSIVE BinaryOf(_)
BinaryOf(bits) ==
    IF bits = <<>> THEN 0
    ELSE 2 * BinaryOf(SubSeq(bits, 1, Len(bits) - 1))
         + (IF bits[Len(bits)] = "1" THEN 1 ELSE 0)

\* int(r_bits, 2) for a string of 0s and 1s: ValueError on the empty string
ParseBinary(bits) ==
    IF bits = <<>> THEN [error |-> "ValueError", value |-> 0]
    ELSE [error |-> NoError, value |-> BinaryOf(bits)]

\* "1" * q + "0"
unary_encode(q) == Append(Repeat("1", q), "0")

golomb_encode(nn, mm) ==
    IF mm = 0
    THEN \* n // m
         [error |-> "ZeroDivisionError", value |-> <<>>]
    ELSE IF mm < 0
    THEN \* m & (m - 1) has the sign bit of a negative m, so it is not 0, and
         \* math.log2(m) raises
         [error |-> "ValueError", value |-> <<>>]
    ELSE LET q == nn \div mm
             r == nn % mm
             quotient_code == unary_encode(q)
             remainder_code ==
                 IF IsPowerOfTwo(mm)
                 THEN FormatBinary(r, Log2Floor(mm))
                 ELSE LET b == Log2Ceil(mm)
                          T == Pow2(b) - mm
                      IN  IF r < T THEN FormatBinary(r, b - 1)
                          ELSE FormatBinary(r + T, b)
         IN  [error |-> NoError, value |-> quotient_code \o remainder_code]

\* the while loop of unary_decode
RECURSIVE LeadingOnes(_)
LeadingOnes(code) ==
    IF code # <<>> /\ code[1] = "1" THEN 1 + LeadingOnes(Rest(code)) ELSE 0

unary_decode(code) ==
    LET q == LeadingOnes(code)
        after == SubSeq(code, q + 1, Len(code))
    IN  [q |-> q,
         code |-> IF after # <<>> /\ after[1] = "0" THEN Rest(after) ELSE after]

\* for m >= 1, the values golomb_encode is given without an error
golomb_decode(code, mm) ==
    LET u == unary_decode(code)
        q == u.q
        remaining_bits == u.code
    IN  IF IsPowerOfTwo(mm)
        THEN LET r == ParseBinary(Prefix(remaining_bits, Log2Floor(mm)))
             IN  IF r.error # NoError THEN r
                 ELSE [error |-> NoError, value |-> q * mm + r.value]
        ELSE LET b == Log2Ceil(mm)
                 T == Pow2(b) - mm
                 r1 == ParseBinary(Prefix(remaining_bits, b - 1))
             IN  IF r1.error # NoError THEN r1
                 ELSE IF r1.value >= T
                 THEN LET r2 == ParseBinary(Prefix(remaining_bits, b))
                      IN  IF r2.error # NoError THEN r2
                          ELSE [error |-> NoError, value |-> q * mm + (r2.value - T)]
                 ELSE [error |-> NoError, value |-> q * mm + r1.value]

-----------------------------------------------------------------------------
(* LZW CODING *)

\* {chr(i): i for i in range(256)}: a string is a sequence of code points
EncoderSeed == [s \in {<<i>> : i \in 0..(ByteRange - 1)} |-> s[1]]

\* {i: chr(i) for i in range(256)}
DecoderSeed == [i \in 0..(ByteRange - 1) |-> <<i>>]

\* the local variables of lzw_compress before the for loop
LzwCompressStart ==
    [dictionary |-> EncoderSeed, next_code |-> ByteRange, current_c |-> <<>>,
     result |-> <<>>]

\* the first half of one iteration of the for loop of lzw_compress, on the
\* symbol next_n: up to and including result.append, before the dictionary
\* is written
LzwCompressEmit(st, next_n) ==
    LET combined == Append(st.current_c, next_n)
    IN  IF combined \notin DOMAIN st.dictionary /\ st.current_c # <<>>
        THEN [st EXCEPT !.result = Append(st.result, st.dictionary[st.current_c])]
        ELSE st

\* one iteration of the for loop of lzw_compress, on the symbol next_n
LzwCompressStep(st, next_n) ==
    LET combined == Append(st.current_c, next_n)
        emitted == LzwCompressEmit(st, next_n)
    IN  IF combined \in DOMAIN st.dictionary
        THEN [st EXCEPT !.current_c = combined]
        ELSE [emitted EXCEPT !.dictionary = (combined :> st.next_code) @@ st.dictionary,
                             !.next_code = st.next_code + 1,
                             !.current_c = <<next_n>>]

\* the local variables of lzw_compress after the for loop has read text[1..i]
RECURSIVE LzwCompressLoop(_, _)
LzwCompressLoop(t, i) ==
    IF i = 0 THEN LzwCompressStart
    ELSE LzwCompressStep(LzwCompressLoop(t, i - 1), t[i])

\* the flush behind the for loop
LzwCompressEnd(st) ==
    IF st.current_c # <<>>
    THEN [st EXCEPT !.result = Append(st.result, st.dictionary[st.current_c])]
    ELSE st

\* the local variables of lzw_compress right after it has appended its k-th
\* code to result (1 <= k <= number of codes): in the iteration that appends
\* it, before that iteration writes the dictionary, or in the flush behind
\* the loop
LzwCompressAtEmit(t, k) ==
    LET emits == {i \in 1..Len(t) :
                     Len(LzwCompressEmit(LzwCompressLoop(t, i - 1), t[i]).result) >= k}
    IN  IF emits = {} THEN LzwCompressEnd(LzwCompressLoop(t, Len(t)))
        ELSE LET i == CHOOSE i \in emits : \A j \in emits : i <= j
             IN  LzwCompressEmit(LzwCompressLoop(t, i - 1), t[i])

lzw_compress(t) == LzwCompressEnd(LzwCompressLoop(t, Len(t))).result

\* the local variables of lzw_decompress before the for loop
LzwDecompressStart(compressed_codes) ==
    IF compressed_codes = <<>>
    THEN \* compressed_codes[0]
         [error |-> "IndexError", dictionary |-> DecoderSeed,
          next_code |-> ByteRange, decoded |-> <<>>, result |-> <<>>]
    ELSE IF compressed_codes[1] \notin DOMAIN DecoderSeed
    THEN \* dictionary[prev_code]
         [error |-> "KeyError", dictionary |-> DecoderSeed,
          next_code |-> ByteRange, decoded |-> <<>>, result |-> <<>>]
    ELSE [error |-> NoError, dictionary |-> DecoderSeed, next_code |-> ByteRange,
          decoded |-> DecoderSeed[compressed_codes[1]],
          result |-> DecoderSeed[compressed_codes[1]]]

\* LzwDecompressStep without the code == next_code branch: a code that is not
\* yet in the dictionary is answered with the previous string alone
LzwDecompressStepNoLookahead(st, code) ==
    IF st.error # NoError THEN st
    ELSE IF code \notin DOMAIN st.dictionary /\ code # st.next_code
    THEN [st EXCEPT !.error = "ValueError"]
    ELSE LET entry == IF code \in DOMAIN st.dictionary THEN st.dictionary[code]
                      ELSE st.decoded
         IN  [error |-> NoError,
              dictionary |-> (st.next_code :> Append(st.decoded, entry[1]))
                             @@ st.dictionary,
              next_code |-> st.next_code + 1,
              decoded |-> entry,
              result |-> st.result \o entry]

\* LzwDecompressStep with the new dictionary entry built from the previous
\* string's own first symbol instead of the new entry's first symbol
LzwDecompressStepOwnFirst(st, code) ==
    IF st.error # NoError THEN st
    ELSE IF code \notin DOMAIN st.dictionary /\ code # st.next_code
    THEN [st EXCEPT !.error = "ValueError"]
    ELSE LET entry == IF code \in DOMAIN st.dictionary THEN st.dictionary[code]
                      ELSE Append(st.decoded, st.decoded[1])
         IN  [error |-> NoError,
              dictionary |-> (st.next_code :> Append(st.decoded, st.decoded[1]))
                             @@ st.dictionary,
              next_code |-> st.next_code + 1,
              decoded |-> entry,
              result |-> st.result \o entry]

\* one iteration of the for loop of lzw_decompress, on the code code
LzwDecompressStep(st, code) ==
    IF st.error # NoError THEN st
    ELSE IF code \notin DOMAIN st.dictionary /\ code # st.next_code
    THEN [st EXCEPT !.error = "ValueError"]
    ELSE LET entry == IF code \in DOMAIN st.dictionary THEN st.dictionary[code]
                      ELSE Append(st.decoded, st.decoded[1])
         IN  [error |-> NoError,
              dictionary |-> (st.next_code :> Append(st.decoded, entry[1]))
                             @@ st.dictionary,
              next_code |-> st.next_code + 1,
              decoded |-> entry,
              result |-> st.result \o entry]

\* the local variables of lzw_decompress after it has processed the first k
\* codes (k >= 1; the first code is processed before the loop)
RECURSIVE LzwDecompressLoop(_, _)
LzwDecompressLoop(compressed_codes, k) ==
    IF k <= 1 THEN LzwDecompressStart(compressed_codes)
    ELSE LzwDecompressStep(LzwDecompressLoop(compressed_codes, k - 1),
                           compressed_codes[k])

lzw_decompress(compressed_codes) ==
    LET st == LzwDecompressLoop(compressed_codes, Len(compressed_codes))
    IN  [error |-> st.error,
         value |-> IF st.error = NoError THEN st.result ELSE <<>>]

-----------------------------------------------------------------------------
(* LOSSY IMAGE COMPRESSION (QUANTIZATION) *)

\* arr.astype(np.uint8)
Uint8(v) == v % ByteRange

\* (arr // (256 // levels)) * (256 // levels) of one sample
QuantizeSample(sample, lv) ==
    Uint8((sample \div (ByteRange \div lv)) * (ByteRange \div lv))

\* quantize_image on a grayscale image, given as the sequence of its samples;
\* image.convert("L") leaves a grayscale image as it is
quantize_image(img, lv) ==
    IF ByteRange \div lv = 0
    THEN [error |-> "ZeroDivisionError", value |-> <<>>]
    ELSE [error |-> NoError,
          value |-> [i \in 1..Len(img) |-> QuantizeSample(img[i], lv)]]

-----------------------------------------------------------------------------
(* Inputs *)

Bits == {"0", "1"}

\* a, b and a decimal digit, and a character that is a digit for isdigit()
\* and no decimal digit
RleAlphabet == {"a", "b", "7", Sup2}

\* every short text of the alphabet, every text of two runs up to MaxRun,
\* and aaabbbccd
RleTexts ==
    SeqsOf(RleAlphabet, 0, MaxRleLen)
    \cup {Repeat("a", i) \o Repeat("b", j) : i \in 0..MaxRun, j \in 0..MaxRun}
    \cup {<<"a", "a", "a", "b", "b", "b", "c", "c", "d">>}

HuffmanAlphabet == {"a", "b", "c", "d"}

\* every short text of the alphabet, aaabbc, and a text whose frequencies
\* 4, 2, 1, 1 give a tree of depth 3
HuffmanTexts ==
    SeqsOf(HuffmanAlphabet, 0, MaxLen)
    \cup {<<"a", "a", "a", "b", "b", "c">>,
          <<"a", "a", "a", "a", "b", "b", "c", "d">>}

\* code tables a caller can hand to huffman_decompress: every table over a, b
\* with two different non-empty codes, prefix-free or not
SuppliedTables ==
    {table \in [{"a", "b"} -> SeqsOf(Bits, 1, MaxCodeLen)] : table["a"] # table["b"]}

SuppliedBitStrings == SeqsOf(Bits, 0, MaxBits)

\* code points of the byte range, its two ends included
LzwAlphabet == {0, 97, ByteRange - 1}

\* TOBEORNOTTOBEORTOBEORNOT
Tobeornot ==
    <<84, 79, 66, 69, 79, 82, 78, 79, 84, 84, 79, 66, 69, 79, 82, 84, 79, 66, 69,
      79, 82, 78, 79, 84>>

LzwTexts == SeqsOf(LzwAlphabet, 0, MaxLen) \cup {Tobeornot}

\* the grayscale image that holds every sample value once
Ramp == [i \in 1..ByteRange |-> i - 1]

Images == {Ramp, <<0, 15, 16, 31>>}

\* st.slider("Select Quantization Levels", 2, 64, 16) gives the lower end;
\* quantize_image itself takes any level count up to the number of samples
LevelCounts == 2..ByteRange

-----------------------------------------------------------------------------
(* The state machine: one run of one codec.                                *)
(*   technique     the codec                                               *)
(*   origin        "text": the run starts from an input of the encoder;    *)
(*                 "artifact": it starts from an encoded artifact of the    *)
(*                 caller                                                  *)
(*   pc            "input", then "compressed" or "compress_failed", then   *)
(*                 "decompressed" or "decompress_failed"                   *)
(*   text, n, m, levels, image   the inputs                                *)
(*   compressed, codes           what the encoder returned                 *)
(*   decompressed                what the decoder returned                 *)
(*   error                       the exception raised, or NoError          *)

Idle ==
    /\ n = 0
    /\ m = 1
    /\ levels = 2
    /\ image = <<>>
    /\ decompressed = <<>>
    /\ error = NoError

Init ==
    \/ /\ technique \in {"rle", "huffman", "lzw"}
       /\ origin = "text"
       /\ pc = "input"
       /\ text \in CASE technique = "rle" -> RleTexts
                     [] technique = "huffman" -> HuffmanTexts
                     [] technique = "lzw" -> LzwTexts
       /\ compressed = <<>>
       /\ codes = <<>>
       /\ Idle
    \/ /\ technique = "huffman"
       /\ origin = "artifact"
       /\ pc = "compressed"
       /\ text = <<>>
       /\ compressed \in SuppliedBitStrings
       /\ codes \in SuppliedTables
       /\ Idle
    \/ /\ technique = "golomb"
       /\ origin = "text"
       /\ pc = "input"
       /\ text = <<>>
       /\ n \in (-MaxNeg)..MaxN
       /\ m \in (-MaxNeg)..MaxM
       /\ levels = 2
       /\ image = <<>>
       /\ compressed = <<>>
       /\ codes = <<>>
       /\ decompressed = <<>>
       /\ error = NoError
    \/ /\ technique = "quantize"
       /\ origin = "text"
       /\ pc = "input"
       /\ text = <<>>
       /\ n = 0
       /\ m = 1
       /\ levels \in LevelCounts
       /\ image \in Images
       /\ compressed = <<>>
       /\ codes = <<>>
       /\ decompressed = <<>>
       /\ error = NoError

Inputs == <<technique, origin, text, n, m, levels, image>>

\* the encoder returned value (and the table table)
Returned(value, table) ==
    /\ compressed' = value
    /\ codes' = table
    /\ error' = NoError
    /\ pc' = "compressed"
    /\ UNCHANGED <<Inputs, decompressed>>

\* the encoder raised err
Raised(err) ==
    /\ error' = err
    /\ pc' = "compress_failed"
    /\ UNCHANGED <<Inputs, compressed, codes, decompressed>>

\* the decoder returned or raised
Decoded(r) ==
    /\ error' = r.error
    /\ decompressed' = IF r.error = NoError THEN r.value ELSE decompressed
    /\ pc' = IF r.error = NoError THEN "decompressed" ELSE "decompress_failed"
    /\ UNCHANGED <<Inputs, compressed, codes>>

RleCompress ==
    /\ technique = "rle"
    /\ pc = "input"
    /\ Returned(rle_compress(text), <<>>)

RleDecompress ==
    /\ technique = "rle"
    /\ pc = "compressed"
    /\ Decoded(rle_decompress(compressed))

HuffmanCompress ==
    /\ technique = "huffman"
    /\ pc = "input"
    /\ LET r == huffman_compress(text)
       IN  IF r.error = NoError THEN Returned(r.encoded_text, r.codes)
           ELSE Raised(r.error)

HuffmanDecompress ==
    /\ technique = "huffman"
    /\ pc = "compressed"
    /\ Decoded(huffman_decompress(compressed, codes))

GolombEncode ==
    /\ technique = "golomb"
    /\ pc = "input"
    /\ LET r == golomb_encode(n, m)
       IN  IF r.error = NoError THEN Returned(r.value, <<>>) ELSE Raised(r.error)

GolombDecode ==
    /\ technique = "golomb"
    /\ pc = "compressed"
    /\ Decoded(golomb_decode(compressed, m))

LzwCompress ==
    /\ technique = "lzw"
    /\ pc = "input"
    /\ Returned(lzw_compress(text), <<>>)

LzwDecompress ==
    /\ technique = "lzw"
    /\ pc = "compressed"
    /\ Decoded(lzw_decompress(compressed))

QuantizeImage ==
    /\ technique = "quantize"
    /\ pc = "input"
    /\ LET r == quantize_image(image, levels)
       IN  IF r.error = NoError THEN Returned(r.value, <<>>) ELSE Raised(r.error)

Next ==
    \/ RleCompress
    \/ RleDecompress
    \/ HuffmanCompress
    \/ HuffmanDecompress
    \/ GolombEncode
    \/ GolombDecode
    \/ LzwCompress
    \/ LzwDecompress
    \/ QuantizeImage

Spec == Init /\ [][Next]_vars

-----------------------------------------------------------------------------
(* Properties *)

IsPrefix(a, b) == Len(a) <= Len(b) /\ SubSeq(b, 1, Len(a)) = a

Symbols(t) == {t[i] : i \in 1..Len(t)}

Ended == pc \in {"decompressed", "decompress_failed"}

\* temp of huffman_decompress when the bit string is exhausted
Residue == DecodeLoop(compressed, ReverseCodes(codes), 1, <<>>, <<>>).temp

\* C1: for every text s that huffman_compress encodes, huffman_decompress of
\* the bit string and table it returned gives back exactly s.
HuffmanRoundTrip ==
    (technique = "huffman" /\ origin = "text" /\ pc = "decompressed")
        => decompressed = text

\* C2: for every n >= 0 and m >= 1, golomb_decode(golomb_encode(n, m), m)
\* returns n.
GolombRoundTrip ==
    (technique = "golomb" /\ n >= 0 /\ m >= 1)
        => /\ pc # "compress_failed"
           /\ Ended => (pc = "decompressed" /\ decompressed = n)

\* C3: for every non-empty text s over the byte range, neither LZW function
\* raises and lzw_decompress(lzw_compress(s)) is exactly s.
LzwRoundTrip ==
    (technique = "lzw" /\ text # <<>>)
        => /\ pc \notin {"compress_failed", "decompress_failed"}
           /\ pc = "decompressed" => decompressed = text

\* the round trip of a text on which the encoder emitted a code the decoder
\* had not defined yet: the k-th code is the decoder's next free code
WitnessLzwRoundTrip ==
    /\ technique = "lzw"
    /\ pc = "decompressed"
    /\ decompressed = text
    /\ \E k \in 2..Len(compressed) : compressed[k] = ByteRange + k - 2

\* C4: for every text s without a decimal digit, rle_decompress(rle_compress(s))
\* returns exactly s.
RleRoundTrip ==
    (technique = "rle" /\ Ended /\ \A i \in 1..Len(text) : ~IsDecimalChar(text[i]))
        => (pc = "decompressed" /\ decompressed = text)

\* C5: on the empty text every text encoder returns an empty result and raises
\* nothing, and so does rle_decompress on the empty string.
EmptyTextEmptyResult ==
    (technique \in {"rle", "huffman", "lzw"} /\ origin = "text" /\ text = <<>>
     /\ pc # "input")
        => /\ pc # "compress_failed"
           /\ compressed = <<>>
           /\ (technique = "rle" /\ Ended)
                 => (pc = "decompressed" /\ decompressed = <<>>)

\* C6: over all samples 0..255 quantize_image outputs at most levels distinct
\* values.
QuantizeAtMostLevels ==
    (technique = "quantize" /\ pc = "compressed" /\ image = Ramp)
        => Cardinality(Symbols(compressed)) <= levels

\* C7: when the bit string is exhausted while the bits read since the last
\* symbol match no code of the table, huffman_decompress fails and returns no
\* text.
HuffmanDecodeRejectsResidue ==
    (technique = "huffman" /\ Ended /\ Residue # <<>>)
        => (pc = "decompress_failed" /\ decompressed = <<>>)

\* C8: golomb_encode raises and returns no bit string for every m < 1 and for
\* every n < 0.
GolombEncodeRejects ==
    (technique = "golomb" /\ pc # "input" /\ (m < 1 \/ n < 0))
        => (pc = "compress_failed" /\ compressed = <<>>)

\* C9: for a non-empty text the table of huffman_compress has one entry per
\* distinct symbol of the text, the codes are pairwise distinct and no code
\* is a prefix of the code of another symbol.
HuffmanTablePrefixFree ==
    (technique = "huffman" /\ origin = "text" /\ text # <<>> /\ pc # "input")
        => /\ pc # "compress_failed"
           /\ DOMAIN codes = Symbols(text)
           /\ \A a, b \in DOMAIN codes :
                 a # b => (codes[a] # codes[b] /\ ~IsPrefix(codes[a], codes[b]))

\* a table of four symbols with codes of one, two and three bits
WitnessHuffmanTable ==
    /\ technique = "huffman"
    /\ origin = "text"
    /\ pc = "compressed"
    /\ Cardinality(DOMAIN codes) = 4
    /\ \A len \in 1..3 : \E a \in DOMAIN codes : Len(codes[a]) = len

====
